---------------------------- MODULE Spec2Model ----------------------------
(***************************************************************************)
(* Model of heading_nmea_udp_sender.c: main() and __signal_handler().      *)
(*                                                                         *)
(* Angles are fixed-point integers in hundredths of a degree (36000 is     *)
(* 360.0 degrees); the C code uses double.  Bytes are integers (ASCII).    *)
(* Every statement of main() that a SIGINT can fall between is one step    *)
(* of the program counter pc.                                              *)
(***************************************************************************)
EXTENDS Integers, Sequences, FiniteSets

VARIABLES
    pc,            \* position of main()
    running,       \* static int running                         (line 53)
    handler,       \* TRUE once signal(SIGINT, __signal_handler) has run
    cfg,           \* the #define calibration the build was made with
    mpu,           \* "uninit" | "on" | "off"
    sock1, sock2,  \* "none" | "open" | "closed"
    mag,           \* data.mag[0], data.mag[1]
    field,         \* xField, yField
    heading,       \* double heading, in hundredths of a degree
    messageInner,  \* char messageInner[14]
    message,       \* char message[20]
    stderr,        \* lines written with fprintf(stderr, ...)
    exitCode,      \* <<>> while main runs, <<v>> once it returned v
    \* history of the current tick (what the calls of this iteration did and
    \* returned; the program itself discards the return values)
    tickOps,       \* the operations performed in this tick, in order
    readRet,       \* <<r>>: what rc_mpu_read_mag returned in this tick
    sendRet1, sendRet2,  \* what each sendto returned in this tick
    dgram1, dgram2,      \* the payloads handed to sendto on each socket
    sigAt,         \* where main() was when the first SIGINT of this tick arrived ("" if none)
    \* history of the run
    sigDelivered,  \* __signal_handler has run at least once
    startupFailed, \* "" or the acquisition that failed
    enteredLoop    \* the run loop's condition has been evaluated

vars == <<pc, running, handler, cfg, mpu, sock1, sock2, mag, field, heading,
          messageInner, message, stderr, exitCode, tickOps, readRet, sendRet1,
          sendRet2, dgram1, dgram2, sigAt, sigDelivered, startupFailed,
          enteredLoop>>

---------------------------------------------------------------------------
(* Bounds and program constants *)

\* magnetometer readings are drawn from -MaxField..MaxField on each axis
MaxField == 2

\* #define HEADING_OFFSET 90.0
HEADING_OFFSET == 9000
\* #define LOCAL_MAGNETIC_DECLINATION 0.1
LOCAL_MAGNETIC_DECLINATION == 10
\* #define BOARD_INVERTED false
BOARD_INVERTED == FALSE
\* char messageInner[14]
InnerSize == 14
\* char message[20]
MessageSize == 20
\* for (i = 0; i < 14; i ++)
CrcLoopLen == 14
\* 360.0, in hundredths of a degree
FullTurn == 36000

Samples == (-MaxField..MaxField) \X (-MaxField..MaxField)

\* what an uninitialised byte of the stack may hold (two of the possible
\* values, both below 128 so that the signedness of char plays no part)
UninitBytes == {0, 65}

\* calibrations other builds may be made with (the #defines are meant to be
\* customised, lines 10-12)
Offsets == {HEADING_OFFSET, 27000, 108000, -81000}
Declinations == {LOCAL_MAGNETIC_DECLINATION, 0}

---------------------------------------------------------------------------
(* Pure helpers *)

Abs(n) == IF n < 0 THEN -n ELSE n

MinOf(S) == CHOOSE m \in S : \A n \in S : m <= n

RECURSIVE Gcd(_, _)
Gcd(a, b) == IF b = 0 THEN a ELSE Gcd(b, a % b)

\* atan(b/a) in hundredths of a degree for 0 <= b <= a, a > 0, rounded to the
\* nearest hundredth; tabulated for the directions with components up to 3
OctantAngle(a, b) ==
    LET g == Gcd(a, b)
        p == a \div g
        q == b \div g
    IN  CASE q = 0 -> 0
          [] p = 1 /\ q = 1 -> 4500
          [] p = 2 /\ q = 1 -> 2657
          [] p = 3 /\ q = 1 -> 1843
          [] p = 3 /\ q = 2 -> 3369

\* atan2(y, x)*(180/M_PI), in hundredths of a degree.  yNegZero says that a
\* zero y is -0.0: atan2(-0.0, x) is -pi for x < 0 and -0.0 for x >= 0.
Atan2Deg(y, x, yNegZero) ==
    LET ax == Abs(x)
        ay == Abs(y)
        q1 == IF ax = 0 /\ ay = 0 THEN 0
              ELSE IF ax >= ay THEN OctantAngle(ax, ay)
              ELSE 9000 - OctantAngle(ay, ax)
    IN  IF y > 0 THEN (IF x >= 0 THEN q1 ELSE 18000 - q1)
        ELSE IF y < 0 THEN (IF x >= 0 THEN -q1 ELSE q1 - 18000)
        ELSE IF x < 0 THEN (IF yNegZero THEN -18000 ELSE 18000)
        ELSE 0

\* double heading = -atan2(-yField, xField)*(180/M_PI);
\* -yField is -0.0 when yField is 0.0
RawHeading(x, y) == -Atan2Deg(-y, x, TRUE)

\* if (BOARD_INVERTED) heading = -heading; heading += HEADING_OFFSET;
\* heading += LOCAL_MAGNETIC_DECLINATION;
ApplyOffsets(h, c) ==
    (IF c.inverted THEN -h ELSE h) + c.offset + c.declination

\* while (heading < 0.0) heading = heading + 360.0;
RECURSIVE AddWhileNegative(_)
AddWhileNegative(h) == IF h < 0 THEN AddWhileNegative(h + FullTurn) ELSE h

\* a single conditional subtraction in place of the loop
SubIfTooBig(h) == IF h >= FullTurn THEN h - FullTurn ELSE h

\* while (heading >= 360.0) heading = heading - 360.0;
RECURSIVE SubWhileTooBig(_)
SubWhileTooBig(h) == IF h >= FullTurn THEN SubWhileTooBig(h - FullTurn) ELSE h

Normalize(h) == SubWhileTooBig(AddWhileNegative(h))

CorrectedHeading(f, c) == Normalize(ApplyOffsets(RawHeading(f[1], f[2]), c))

---------------------------------------------------------------------------
(* Text: sprintf, strlen and the checksum loop.  A C string is a sequence  *)
(* of bytes; an array is a sequence of its size, index i of C at i + 1.    *)

\* the decimal digits of a natural number, as ASCII
RECURSIVE Digits(_)
Digits(n) == IF n < 10 THEN <<48 + n>> ELSE Digits(n \div 10) \o <<48 + (n % 10)>>

\* zero padding on the left up to the minimum field width w (the 0 flag)
RECURSIVE PadZero(_, _)
PadZero(s, w) == IF Len(s) >= w THEN s ELSE PadZero(<<48>> \o s, w)

\* "%03.1f": one decimal (rounded to nearest), minimum field width 3 counted
\* over the whole field, zero padded
FormatF(h) ==
    LET a == Abs(h)
        t == (a + 5) \div 10
        body == Digits(t \div 10) \o <<46, 48 + (t % 10)>>
    IN  IF h < 0 THEN <<45>> \o PadZero(body, 2) ELSE PadZero(body, 3)

\* "HEHDT,%03.1f,T"
InnerText(h) == <<72, 69, 72, 68, 84, 44>> \o FormatF(h) \o <<44, 84>>

\* sprintf(buf, ...) producing the text s: the characters of s, then a NUL;
\* the bytes of buf after them keep their value.  (Text longer than the array
\* would be written past its end; only the array is modelled.)
WriteStr(buf, s) ==
    IF Len(s) >= Len(buf) THEN SubSeq(s, 1, Len(buf))
    ELSE s \o <<0>> \o SubSeq(buf, Len(s) + 2, Len(buf))

\* the string held in buf: its bytes up to the first NUL (what %s and strlen see)
CStr(buf) ==
    LET nul == {i \in 1..Len(buf) : buf[i] = 0}
    IN  IF nul = {} THEN buf ELSE SubSeq(buf, 1, MinOf(nul) - 1)

\* bit k of byte b
Bit(b, k) == (b \div (2 ^ k)) % 2

\* the exclusive or of the first n bytes of buf (crc ^= buf[i] for i < n):
\* bit k of the result is the parity of the number of those bytes with bit k set
XorBytes(buf, n) ==
    LET odd(k) == Cardinality({i \in 1..n : Bit(buf[i], k) = 1}) % 2
    IN  odd(0) + 2 * odd(1) + 4 * odd(2) + 8 * odd(3) + 16 * odd(4) + 32 * odd(5)
        + 64 * odd(6) + 128 * odd(7)

\* int crc = 0; for (i = 0; i < 14; i ++) crc ^= messageInner[i];
Checksum(buf) == XorBytes(buf, CrcLoopLen)

HexDigit(d) == IF d < 10 THEN 48 + d ELSE 55 + d

\* the uppercase hexadecimal digits of a natural number
RECURSIVE HexDigits(_)
HexDigits(n) ==
    IF n < 16 THEN <<HexDigit(n)>> ELSE HexDigits(n \div 16) \o <<HexDigit(n % 16)>>

\* "%02X"
FormatX(n) == PadZero(HexDigits(n), 2)

\* "$%s*%02X\r\n"
SentenceText(inner, crc) ==
    <<36>> \o CStr(inner) \o <<42>> \o FormatX(crc) \o <<13, 10>>

\* the payload of sendto(s, message, strlen(message)+1, ...)
Payload(msg) == CStr(msg) \o <<0>>

---------------------------------------------------------------------------
(* State machine *)

TickPcs == {"read", "calc", "encode", "send1", "send2", "sleep"}
LoopPcs == TickPcs \cup {"loop"}
ShutdownPcs == {"poweroff", "close1", "close2", "return"}

DefaultConfig ==
    [inverted |-> BOARD_INVERTED, offset |-> HEADING_OFFSET,
     declination |-> LOCAL_MAGNETIC_DECLINATION]

Configs ==
    [inverted : BOOLEAN, offset : Offsets, declination : Declinations]

\* the state when main() is entered, for a build with calibration c; data and
\* the two character arrays are uninitialised stack memory
InitWith(c, m, inner) ==
    /\ pc = "signal"
    /\ running = 0
    /\ handler = FALSE
    /\ cfg = c
    /\ mpu = "uninit"
    /\ sock1 = "none"
    /\ sock2 = "none"
    /\ mag = m
    /\ field = <<0, 0>>
    /\ heading = 0
    /\ messageInner = inner
    /\ message = [i \in 1..MessageSize |-> 0]
    /\ stderr = <<>>
    /\ exitCode = <<>>
    /\ tickOps = <<>>
    /\ readRet = <<>>
    /\ sendRet1 = <<>>
    /\ sendRet2 = <<>>
    /\ dgram1 = <<>>
    /\ dgram2 = <<>>
    /\ sigAt = ""
    /\ sigDelivered = FALSE
    /\ startupFailed = ""
    /\ enteredLoop = FALSE

\* the uninitialised contents of messageInner: bytes a and b in its last two
\* places, the only ones an iteration can read before writing them
UninitInner == {[i \in 1..InnerSize |-> IF i < InnerSize THEN a ELSE b] :
                    a \in UninitBytes, b \in UninitBytes}

Init == \E m \in Samples, inner \in UninitInner : InitWith(DefaultConfig, m, inner)

InitCal ==
    \E c \in Configs : InitWith(c, <<0, 0>>, [i \in 1..InnerSize |-> 0])

hist == <<tickOps, readRet, sendRet1, sendRet2, dgram1, dgram2, sigAt,
          startupFailed, enteredLoop>>
locals == <<mag, field, heading, messageInner, message>>
resources == <<mpu, sock1, sock2>>

\* signal(SIGINT, __signal_handler);
InstallHandler ==
    /\ pc = "signal"
    /\ handler' = TRUE
    /\ pc' = "setrun"
    /\ UNCHANGED <<running, cfg, resources, locals, stderr, exitCode, hist, sigDelivered>>

\* running = 1;
SetRunning ==
    /\ pc = "setrun"
    /\ running' = 1
    /\ pc' = "init"
    /\ UNCHANGED <<handler, cfg, resources, locals, stderr, exitCode, hist, sigDelivered>>

\* return -1 after fprintf(stderr, text)
FailStartup(what, text) ==
    /\ stderr' = Append(stderr, text)
    /\ exitCode' = <<-1>>
    /\ startupFailed' = what
    /\ pc' = "exited"

\* if (rc_mpu_initialize(&data, conf)) { fprintf(...); return -1; }
InitMpu ==
    /\ pc = "init"
    /\ \/ /\ mpu' = "on"
          /\ pc' = "sock1"
          /\ UNCHANGED <<stderr, exitCode, startupFailed>>
       \/ /\ FailStartup("mpu", "rc_mpu_initialize failed")
          /\ UNCHANGED mpu
    /\ UNCHANGED <<running, handler, cfg, sock1, sock2, locals, tickOps, readRet,
                   sendRet1, sendRet2, dgram1, dgram2, sigAt, enteredLoop,
                   sigDelivered>>

\* socket 1 with the return -1 of its failure branch left out
CreateSocket1_NoReturn ==
    /\ pc = "sock1"
    /\ \/ /\ sock1' = "open"
          /\ UNCHANGED <<stderr, startupFailed>>
       \/ /\ stderr' = Append(stderr, "create socket 1 failed")
          /\ startupFailed' = "socket1"
          /\ UNCHANGED sock1
    /\ pc' = "sock2"
    /\ UNCHANGED <<running, handler, cfg, mpu, sock2, locals, exitCode, tickOps, readRet,
                   sendRet1, sendRet2, dgram1, dgram2, sigAt, enteredLoop,
                   sigDelivered>>

\* if ((socket1 = socket(...)) >= 0) {...} else { fprintf(...); return -1; }
CreateSocket1 ==
    /\ pc = "sock1"
    /\ \/ /\ sock1' = "open"
          /\ pc' = "sock2"
          /\ UNCHANGED <<stderr, exitCode, startupFailed>>
       \/ /\ FailStartup("socket1", "create socket 1 failed")
          /\ UNCHANGED sock1
    /\ UNCHANGED <<running, handler, cfg, mpu, sock2, locals, tickOps, readRet,
                   sendRet1, sendRet2, dgram1, dgram2, sigAt, enteredLoop,
                   sigDelivered>>

\* if ((socket2 = socket(...)) >= 0) {...} else { fprintf(...); return -1; }
CreateSocket2 ==
    /\ pc = "sock2"
    /\ \/ /\ sock2' = "open"
          /\ pc' = "loop"
          /\ UNCHANGED <<stderr, exitCode, startupFailed>>
       \/ /\ FailStartup("socket2", "create socket 2 failed")
          /\ UNCHANGED sock2
    /\ UNCHANGED <<running, handler, cfg, mpu, sock1, locals, tickOps, readRet,
                   sendRet1, sendRet2, dgram1, dgram2, sigAt, enteredLoop,
                   sigDelivered>>

\* while (running): the loop body is entered, or the loop is left
LoopTest ==
    /\ pc = "loop"
    /\ enteredLoop' = TRUE
    /\ \/ /\ running # 0
          /\ pc' = "read"
          /\ tickOps' = <<>>
          /\ readRet' = <<>>
          /\ sendRet1' = <<>>
          /\ sendRet2' = <<>>
          /\ dgram1' = <<>>
          /\ dgram2' = <<>>
          /\ sigAt' = ""
       \/ /\ running = 0
          /\ pc' = "poweroff"
          /\ UNCHANGED <<tickOps, readRet, sendRet1, sendRet2, dgram1, dgram2, sigAt>>
    /\ UNCHANGED <<running, handler, cfg, resources, locals, stderr, exitCode,
                   startupFailed, sigDelivered>>

\* rc_mpu_read_mag(&data); double xField = data.mag[0]; double yField = data.mag[1];
\* the return value is not looked at; a failed read leaves data.mag as it was
ReadMag ==
    /\ pc = "read"
    /\ \/ /\ \E s \in Samples : mag' = s
          /\ readRet' = <<0>>
       \/ /\ UNCHANGED mag
          /\ readRet' = <<-1>>
    /\ field' = mag'
    /\ tickOps' = Append(tickOps, "read")
    /\ pc' = "calc"
    /\ UNCHANGED <<running, handler, cfg, resources, heading, messageInner, message,
                   stderr, exitCode, sendRet1, sendRet2, dgram1, dgram2, sigAt,
                   startupFailed, enteredLoop, sigDelivered>>

\* lines 108-124: the heading from the reading, offsets, normalisation
CalcHeading ==
    /\ pc = "calc"
    /\ heading' = CorrectedHeading(field, cfg)
    /\ tickOps' = Append(tickOps, "correct")
    /\ pc' = "encode"
    /\ UNCHANGED <<running, handler, cfg, resources, mag, field, messageInner, message,
                   stderr, exitCode, readRet, sendRet1, sendRet2, dgram1, dgram2, sigAt,
                   startupFailed, enteredLoop, sigDelivered>>

\* lines 126-138: inner text, checksum, full message (inner: messageInner after
\* line 128; crc: the value of crc after the loop of lines 133-135)
Encode ==
    /\ pc = "encode"
    /\ \E inner \in {WriteStr(messageInner, InnerText(heading))} :
       \E crc \in {Checksum(inner)} :
          /\ messageInner' = inner
          /\ message' = WriteStr(message, SentenceText(inner, crc))
    /\ tickOps' = Append(tickOps, "encode")
    /\ pc' = "send1"
    /\ UNCHANGED <<running, handler, cfg, resources, mag, field, heading,
                   stderr, exitCode, readRet, sendRet1, sendRet2, dgram1, dgram2, sigAt,
                   startupFailed, enteredLoop, sigDelivered>>

\* sendto(socket1, message, strlen(message)+1, ...): the number of bytes sent,
\* or -1; the return value is not looked at
SendTo1 ==
    /\ pc = "send1"
    /\ dgram1' = Append(dgram1, Payload(message))
    /\ \/ sendRet1' = <<Len(Payload(message))>>
       \/ sendRet1' = <<-1>>
    /\ tickOps' = Append(tickOps, "send1")
    /\ pc' = "send2"
    /\ UNCHANGED <<running, handler, cfg, resources, locals, stderr, exitCode,
                   readRet, sendRet2, dgram2, sigAt, startupFailed, enteredLoop,
                   sigDelivered>>

\* the second sendto written with socket1 again
SendTo2_OnSocket1 ==
    /\ pc = "send2"
    /\ dgram1' = Append(dgram1, Payload(message))
    /\ \/ sendRet2' = <<Len(Payload(message))>>
       \/ sendRet2' = <<-1>>
    /\ tickOps' = Append(tickOps, "send2")
    /\ pc' = "sleep"
    /\ UNCHANGED <<running, handler, cfg, resources, locals, stderr, exitCode,
                   readRet, sendRet1, dgram2, sigAt, startupFailed, enteredLoop,
                   sigDelivered>>

\* the second sendto guarded by the shutdown flag: if (running) sendto(socket2, ...)
SendTo2_IfRunning ==
    /\ pc = "send2"
    /\ \/ /\ running # 0
          /\ dgram2' = Append(dgram2, Payload(message))
          /\ \/ sendRet2' = <<Len(Payload(message))>>
             \/ sendRet2' = <<-1>>
          /\ tickOps' = Append(tickOps, "send2")
       \/ /\ running = 0
          /\ UNCHANGED <<dgram2, sendRet2, tickOps>>
    /\ pc' = "sleep"
    /\ UNCHANGED <<running, handler, cfg, resources, locals, stderr, exitCode,
                   readRet, sendRet1, dgram1, sigAt, startupFailed, enteredLoop,
                   sigDelivered>>

\* sendto(socket2, message, strlen(message)+1, ...)
SendTo2 ==
    /\ pc = "send2"
    /\ dgram2' = Append(dgram2, Payload(message))
    /\ \/ sendRet2' = <<Len(Payload(message))>>
       \/ sendRet2' = <<-1>>
    /\ tickOps' = Append(tickOps, "send2")
    /\ pc' = "sleep"
    /\ UNCHANGED <<running, handler, cfg, resources, locals, stderr, exitCode,
                   readRet, sendRet1, dgram1, sigAt, startupFailed, enteredLoop,
                   sigDelivered>>

\* rc_usleep(100000);
Sleep ==
    /\ pc = "sleep"
    /\ pc' = "loop"
    /\ UNCHANGED <<running, handler, cfg, resources, locals, stderr, exitCode, hist,
                   sigDelivered>>

\* rc_mpu_power_off();
PowerOff ==
    /\ pc = "poweroff"
    /\ mpu' = "off"
    /\ pc' = "close1"
    /\ UNCHANGED <<running, handler, cfg, sock1, sock2, locals, stderr, exitCode, hist,
                   sigDelivered>>

\* close(socket1);
Close1 ==
    /\ pc = "close1"
    /\ sock1' = "closed"
    /\ pc' = "close2"
    /\ UNCHANGED <<running, handler, cfg, mpu, sock2, locals, stderr, exitCode, hist,
                   sigDelivered>>

\* close(socket2);
Close2 ==
    /\ pc = "close2"
    /\ sock2' = "closed"
    /\ pc' = "return"
    /\ UNCHANGED <<running, handler, cfg, mpu, sock1, locals, stderr, exitCode, hist,
                   sigDelivered>>

\* return 0;
Return ==
    /\ pc = "return"
    /\ exitCode' = <<0>>
    /\ pc' = "exited"
    /\ UNCHANGED <<running, handler, cfg, resources, locals, stderr, hist, sigDelivered>>

\* SIGINT is delivered and __signal_handler runs: running = 0;
SignalHandler ==
    /\ handler
    /\ pc # "exited"
    /\ running' = 0
    /\ sigDelivered' = TRUE
    /\ sigAt' = IF pc \in TickPcs /\ sigAt = "" THEN pc ELSE sigAt
    /\ UNCHANGED <<pc, handler, cfg, resources, locals, stderr, exitCode, tickOps,
                   readRet, sendRet1, sendRet2, dgram1, dgram2, startupFailed,
                   enteredLoop>>

\* the steps of main()
Main ==
    \/ InstallHandler
    \/ SetRunning
    \/ InitMpu
    \/ CreateSocket1
    \/ CreateSocket2
    \/ LoopTest
    \/ ReadMag
    \/ CalcHeading
    \/ Encode
    \/ SendTo1
    \/ SendTo2
    \/ Sleep
    \/ PowerOff
    \/ Close1
    \/ Close2
    \/ Return

Next == Main \/ SignalHandler

Spec == Init /\ [][Next]_vars

\* builds with other calibrations
SpecCal == InitCal /\ [][Next]_vars

\* main() is a running thread: whenever it has a next statement it executes it
FairSpec == Init /\ [][Next]_vars /\ WF_vars(Main)

---------------------------------------------------------------------------
(* Reading a sentence back, as a receiver does *)

\* the payloads handed to sendto in the current tick
SentPayloads ==
    {dgram1[i] : i \in 1..Len(dgram1)} \cup {dgram2[i] : i \in 1..Len(dgram2)}

\* the position of the first '*' of a payload
StarAt(d) == MinOf({i \in 1..Len(d) : d[i] = 42} \cup {Len(d) + 1})

\* the bytes strictly between '$' and '*'
InnerOf(d) == SubSeq(d, 2, StarAt(d) - 1)

\* the two bytes after '*'
SentChecksum(d) == SubSeq(d, StarAt(d) + 1, StarAt(d) + 2)

IsDigit(b) == b \in 48..57
IsUpper(b) == b \in 65..90
IsHex(b) == b \in 48..57 \/ b \in 65..70

TickSeq == <<"read", "correct", "encode", "send1", "send2">>

Stopped ==
    /\ pc = "exited"
    /\ exitCode = <<0>>
    /\ mpu = "off"
    /\ sock1 = "closed"
    /\ sock2 = "closed"

SendFailed == sendRet1 = <<-1>> \/ sendRet2 = <<-1>>

---------------------------------------------------------------------------
(* Claims *)

\* C1: once a SIGINT has been handled (the handler being installed), the
\* program eventually reaches Stopped: MPU powered off, both sockets closed,
\* main returned 0.  (A start-up that fails ends the program as well.)
C1_ShutdownNeverLost == sigDelivered ~> (Stopped \/ startupFailed # "")

\* C2: a tick whose sensor read failed sends no sentence to any destination.
C2_FailedReadSkipsTick ==
    readRet = <<-1>> => (dgram1 = <<>> /\ dgram2 = <<>>)

\* C3: in every payload sent, the two bytes after '*' are the uppercase
\* hexadecimal exclusive or of exactly the bytes between '$' and '*'.
C3_ChecksumMatchesInner ==
    \A d \in SentPayloads :
        /\ d[1] = 36
        /\ SentChecksum(d) = FormatX(XorBytes(InnerOf(d), Len(InnerOf(d))))

\* C4: when a sendto of the tick failed, both destinations were still handed
\* the identical bytes in that tick, the failure was written to the log, and
\* the program goes on.
C4_SendFailureIsolatedAndLogged ==
    (pc \in {"sleep", "loop"} /\ SendFailed) =>
        /\ Len(dgram1) = 1
        /\ dgram2 = dgram1
        /\ exitCode = <<>>
        /\ Len(stderr) > 0

\* the part of C4 that does not concern the log
SendFailureIsolated ==
    (pc \in {"sleep", "loop"} /\ SendFailed) =>
        /\ Len(dgram1) = 1
        /\ dgram2 = dgram1
        /\ exitCode = <<>>
        /\ stderr = <<>>

\* C5: a start-up whose sensor initialisation or socket creation failed has
\* reported that failure, returned a non-zero status, never evaluated the run
\* loop, read no sample and sent no datagram; and the run loop is only ever
\* entered with the sensor initialised and both sockets created.
C5_StartupFailureNeverRuns ==
    /\ startupFailed # "" =>
          /\ pc = "exited"
          /\ exitCode = <<-1>>
          /\ stderr = <<CASE startupFailed = "mpu" -> "rc_mpu_initialize failed"
                          [] startupFailed = "socket1" -> "create socket 1 failed"
                          [] startupFailed = "socket2" -> "create socket 2 failed">>
          /\ ~enteredLoop
          /\ tickOps = <<>>
          /\ readRet = <<>>
          /\ dgram1 = <<>>
          /\ dgram2 = <<>>
    /\ (enteredLoop \/ pc \in LoopPcs) =>
          (startupFailed = "" /\ mpu # "uninit" /\ sock1 # "none" /\ sock2 # "none")

C5_Witness ==
    /\ startupFailed = "socket2"
    /\ pc = "exited"
    /\ mpu = "on"
    /\ sock1 = "open"

\* C6: in every tick the operations are read, correct, encode, send to
\* destination 1, send to destination 2, each once and in that order; the
\* sentence sent is the encoding of the heading of the sample of that tick;
\* a tick only begins when the previous one has sent to both destinations.
C6_TickOrder ==
    /\ pc = "read" => (tickOps = <<>> /\ dgram1 = <<>> /\ dgram2 = <<>>)
    /\ pc = "calc" => (tickOps = SubSeq(TickSeq, 1, 1) /\ field = mag)
    /\ pc = "encode" => tickOps = SubSeq(TickSeq, 1, 2)
    /\ pc = "send1" => (tickOps = SubSeq(TickSeq, 1, 3) /\ dgram1 = <<>> /\ dgram2 = <<>>)
    /\ pc = "send2" =>
          (tickOps = SubSeq(TickSeq, 1, 4) /\ dgram1 = <<Payload(message)>> /\ dgram2 = <<>>)
    /\ pc = "sleep" =>
          (tickOps = TickSeq /\ dgram1 = <<Payload(message)>> /\ dgram2 = dgram1)
    /\ (pc = "loop" /\ enteredLoop) =>
          (tickOps = TickSeq /\ Len(dgram1) = 1 /\ Len(dgram2) = 1)
    /\ pc \in {"send1", "send2", "sleep"} =>
          /\ heading = CorrectedHeading(mag, cfg)
          /\ CStr(messageInner) = InnerText(heading)
          /\ InnerOf(CStr(message)) = InnerText(heading)

C6_Witness ==
    /\ pc = "loop"
    /\ enteredLoop
    /\ tickOps = TickSeq
    /\ running = 1

\* C7 (state part): a tick in which a SIGINT arrived still sends its sentence
\* to both destinations.
C7_TickCompletes ==
    (sigAt # "" /\ pc \in {"sleep", "loop"} \cup ShutdownPcs \cup {"exited"}) =>
        /\ tickOps = TickSeq
        /\ Len(dgram1) = 1
        /\ dgram2 = dgram1

\* C7 (step part): the run loop is only left from its condition, with running
\* cleared; no step inside a tick leaves the tick; once the loop is left no
\* read and no send happens any more.
C7_Step ==
    /\ pc \in TickPcs => pc' \in LoopPcs
    /\ (pc = "loop" /\ pc' = "poweroff") => running = 0
    /\ (pc = "loop" /\ pc' = "read") => running # 0
    /\ pc \in (ShutdownPcs \cup {"exited"}) =>
          /\ pc' \in (ShutdownPcs \cup {"exited"})
          /\ UNCHANGED <<tickOps, readRet, dgram1, dgram2>>

\* C7: a shutdown request takes effect only at the loop condition: the tick in
\* which it arrives is completed, and after it is observed no tick starts.
C7_ShutdownAtTickBoundary == [](C7_TickCompletes) /\ [][C7_Step]_vars

C7_Witness ==
    /\ pc = "poweroff"
    /\ sigAt = "send2"
    /\ Len(dgram1) = 1
    /\ Len(dgram2) = 1

\* C8: for a reading that is not (0, 0) and any calibration, the heading given
\* to the encoder is in [0, 360) and differs from the corrected raw heading by
\* a whole number of turns.
C8_HeadingNormalized ==
    (pc \in {"encode", "send1", "send2", "sleep"} /\ field # <<0, 0>>) =>
        /\ 0 <= heading
        /\ heading < FullTurn
        /\ (heading - ApplyOffsets(RawHeading(field[1], field[2]), cfg)) % FullTurn = 0

\* a corrected heading of exactly 360.0 reaches the encoder as 0.0
C8_Witness ==
    /\ pc = "encode"
    /\ field # <<0, 0>>
    /\ ApplyOffsets(RawHeading(field[1], field[2]), cfg) = FullTurn
    /\ heading = 0

\* a corrected heading of 1080.0 or more (several wraps) is reached as well
C8_MultiWrapReached ==
    /\ pc = "encode"
    /\ field # <<0, 0>>
    /\ ApplyOffsets(RawHeading(field[1], field[2]), cfg) >= 3 * FullTurn

\* C9: every sentence sent has the form $ttHDT,ddd.d,T*XX\r\n: a 13 character
\* inner field with the heading as three integer digits, a point and one
\* decimal digit.
C9_SentenceForm ==
    \A d \in SentPayloads :
        LET inner == InnerOf(d)
            star == StarAt(d)
        IN  /\ d[1] = 36
            /\ Len(inner) = 13
            /\ IsUpper(inner[1]) /\ IsUpper(inner[2])
            /\ SubSeq(inner, 3, 6) = <<72, 68, 84, 44>>
            /\ IsDigit(inner[7]) /\ IsDigit(inner[8]) /\ IsDigit(inner[9])
            /\ inner[10] = 46
            /\ IsDigit(inner[11])
            /\ SubSeq(inner, 12, 13) = <<44, 84>>
            /\ Len(d) >= star + 4
            /\ IsHex(d[star + 1]) /\ IsHex(d[star + 2])
            /\ d[star + 3] = 13 /\ d[star + 4] = 10

\* C10: when main has returned, the MPU is not left powered and no socket is
\* left open; and reads and sends only happen with the MPU on and both sockets
\* open.
C10_ReleasedOnReturn ==
    /\ pc = "exited" => (mpu # "on" /\ sock1 # "open" /\ sock2 # "open")
    /\ pc \in TickPcs => (mpu = "on" /\ sock1 = "open" /\ sock2 = "open")

=============================================================================
